---- MODULE Spec2Model ----
(***************************************************************************)
(* TopDown disclosure-control engine of ChileCensusDP: geographic tree     *)
(* construction, measurement (noise), two-stage estimation per parent and  *)
(* microdata reconstruction, and the start of a run resumed from a         *)
(* checkpoint, as implemented in top_down.py, geographic_tree.py and       *)
(* optimizer.py.                                                           *)
(*                                                                         *)
(* Conventions.                                                            *)
(*  - A record is [geo |-> <<g_0..g_{L-1}>>, q |-> <<q_1, q_2>>].          *)
(*  - A node is named by its path of 1-based child positions (root <<>>).  *)
(*  - Python None for a vector is the empty sequence (a vector has |Pi|>=1 *)
(*    cells whenever the input is not empty).                               *)
(*  - A real vector returned by the solver is kept in units of 1/Den       *)
(*    (x = 3 means 3/Den); integer vectors are kept in units of 1.         *)
(***************************************************************************)
EXTENDS Integers, Sequences, FiniteSets, TLC

VARIABLES
  data,         \* TopDown.data: the input table, a sequence of records
  processed_data, \* TopDown.processed_data: the checkpoint table, or None
  cfg,          \* depth, ROOT_CONSTRAINTS and GEO_CONSTRAINTS of the run
  permutation,  \* TopDown.permutation
  tree,         \* TopDown.geo_tree: path |-> node
  pc,           \* position of TopDown.run
  queue,        \* the deque of apply_noise / recursive_estimation
  noisy,        \* number of non-zero noise samples drawn so far
  x_tilde,      \* the local x_tilde of root_estimation / recursive_estimation
  cur,          \* the local `node` of recursive_estimation
  built,        \* history: the tree as init_routine left it
  measured,     \* history: the tree as measurement_phase left it
  diag,         \* the "Model is infeasible for node ..." lines printed
  exc,          \* the uncaught exception that ended the run, if any
  microdata,    \* the records construct_microdata returns
  exit_status,  \* exit status of the process (-1 while it runs)
  status,       \* history: the state of every node (spec, section 4.4)
  drawn,        \* history: the calls mechanism(node.contingency_vector, rho)
  programs,     \* history: the joint programs recursive_estimation solved
  popped        \* history: the nodes recursive_estimation took from its queue

vars == <<data, processed_data, cfg, permutation, tree, pc, queue, noisy,
          x_tilde, cur, built, measured, diag, exc, microdata, exit_status,
          status, drawn, programs, popped>>

----------------------------------------------------------------------------
(* Bounds of the model *)

\* longest input table
MaxRecords == 2
\* number of cells of a run that receive a non-zero noise sample
MaxNoisy == 1
\* largest cell of the first-stage solutions handed to the second stage alone
MaxCell == 2
\* the solver's reals are the multiples of 1/Den
Den == 2

\* values a geographic column may take, values the query columns may take
GeoVals == {1, 2}
Q1Vals == {0, 1}
Q2Vals == {0}
\* values of the second query column in the runs of the build phase alone
Q2Wide == {0, 1}
\* noise samples (sample_dlaplace / sample_dgauss return integers)
NoiseVals == {-1, 0, 1}

None == <<>>

----------------------------------------------------------------------------
(* Sequences and vectors *)

RECURSIVE SumSeq(_)
SumSeq(s) == IF s = <<>> THEN 0 ELSE s[1] + SumSeq(Tail(s))

Range(s) == {s[i] : i \in DOMAIN s}

\* pandas Series.unique(): the distinct values in order of first appearance
RECURSIVE unique(_)
unique(s) ==
  IF s = <<>> THEN <<>>
  ELSE LET r == unique(SubSeq(s, 1, Len(s) - 1))
           x == s[Len(s)]
       IN IF x \in Range(r) THEN r ELSE Append(r, x)

\* a filter that keeps every row
filter_geo_all(df, col, value) == df

\* df[df[col] == value] for a geographic column (1-based position)
RECURSIVE filter_geo(_, _, _)
filter_geo(df, col, value) ==
  IF df = <<>> THEN <<>>
  ELSE LET r == filter_geo(Tail(df), col, value)
       IN IF df[1].geo[col] = value THEN <<df[1]>> \o r ELSE r

Column(df, col) == [i \in DOMAIN df |-> df[i].geo[col]]
QColumn(df, k) == [i \in DOMAIN df |-> df[i].q[k]]

\* lexicographic order of query tuples, as DataFrame.sort_values(by=columns)
LexLeq(a, b) == a[1] < b[1] \/ (a[1] = b[1] /\ a[2] <= b[2])

\* a pairing of the per-column unique values position by position (zip)
product_zip(u1, u2) ==
  [k \in 1..(IF Len(u1) < Len(u2) THEN Len(u1) ELSE Len(u2)) |-> <<u1[k], u2[k]>>]

\* itertools.product of the per-column unique values, first column slowest
product(u1, u2) ==
  [k \in 1..(Len(u1) * Len(u2)) |->
     <<u1[((k - 1) \div Len(u2)) + 1], u2[((k - 1) % Len(u2)) + 1]>>]

\* compute_permutation without its sort_values: itertools.product order
compute_permutation_unsorted(df) ==
  product(unique(QColumn(df, 1)), unique(QColumn(df, 2)))

\* TopDown.compute_permutation
compute_permutation(df) ==
  SortSeq(product(unique(QColumn(df, 1)), unique(QColumn(df, 2))), LexLeq)

----------------------------------------------------------------------------
(* Histogram builder *)

\* a grouping that ignores its keys: every tuple is given the size of df
GroupSize_all(df, t) == Len(df)

\* df.groupby(queries).size(): the number of rows of df carrying tuple t
GroupSize(df, t) == Cardinality({i \in DOMAIN df : df[i].q = t})

\* pd.merge(permutation, grouped, how='left').fillna(0): one frequency per
\* row of the permutation
Merged(df, perm) == [i \in DOMAIN perm |-> GroupSize(df, perm[i])]

SortInts(S) == SortSeq(unique(S), <=)

\* a histogram that records presence only: 1 for a tuple df shows, else 0
construct_contingency_vector_capped(df, perm) ==
  [i \in DOMAIN perm |-> IF GroupSize(df, perm[i]) > 0 THEN 1 ELSE 0]

\* GeographicTree.construct_contingency_vector: pivot the merged table with
\* the first query column as index and the last as columns (both sorted by
\* pandas), then flatten row by row
construct_contingency_vector(df, perm) ==
  LET m == Merged(df, perm)
      rows == SortInts([i \in DOMAIN perm |-> perm[i][1]])
      cols == SortInts([i \in DOMAIN perm |-> perm[i][2]])
      cell(a, b) == LET i == CHOOSE i \in DOMAIN perm : perm[i] = <<a, b>>
                    IN m[i]
  IN [k \in 1..(Len(rows) * Len(cols)) |->
        cell(rows[((k - 1) \div Len(cols)) + 1], cols[((k - 1) % Len(cols)) + 1])]

----------------------------------------------------------------------------
(* Edit-constraint templates f(v, t) and their closures *)

\* The templates of a configuration.  "SumEq" is the template of main.py and
\* config.py (v.sum() == t); "Cell0Eq5" is v[0] == 5 and "Twice0EqT" is
\* 2*v[0] == t, two linear templates a configuration may add.
Templates == {"SumEq", "Cell0Eq5", "Twice0EqT"}

\* f(v, t) for a vector v in units of 1/den
EvalTemplate(f, v, t, den) ==
  CASE f = "SumEq"     -> SumSeq(v) = t * den
    [] f = "Cell0Eq5"  -> v[1] = 5 * den
    [] f = "Twice0EqT" -> 2 * v[1] = t * den

\* [(lambda array, value=t: constraint(array, value)) for constraint in templates]
\* Each lambda fixes value = t when it is created, but names `constraint`,
\* the comprehension's loop variable, which it reads when it is called: after
\* the comprehension has ended every lambda of the list sees the last template.
BindTemplates(templates, t) ==
  [i \in DOMAIN templates |->
     [kind |-> "local", tmpl |-> templates[Len(templates)], value |-> t]]

\* PRIVACY_PARAMETERS of main.py, first value for the root, last for the
\* leaves: (e_t / 63) * 2^i for i = 0..5 with e_t = 10, in units of 1/63
PRIVACY_PARAMETERS == [i \in 1..6 |-> 10 * (2 ^ (i - 1))]

\* TopDown.noise_mechanism before set_mechanism is called
NoMechanism == "None"

\* TopDown.set_mechanism: noise_mechanism becomes the method of the name
\* given; for any other name it is left as it was
set_mechanism(mechanism) ==
  IF mechanism = "discrete_gaussian" THEN "discrete_gaussian"
  ELSE IF mechanism = "discrete_laplace" THEN "discrete_laplace"
  ELSE NoMechanism

\* the configurations a run may be started with: depth L = |geo_columns|,
\* ROOT_CONSTRAINTS (root_given: set_root_constraints was called) and
\* GEO_CONSTRAINTS (one list per geographic column), MECHANISM and
\* PRIVACY_PARAMETERS as main.py sets them
ConfigSet ==
  { [L |-> 1, root_given |-> TRUE, root_constraints |-> <<"SumEq">>,
     geo_constraints |-> << <<>>, <<>> >>,
     mechanism |-> "discrete_laplace", privacy_parameters |-> PRIVACY_PARAMETERS],
    [L |-> 1, root_given |-> TRUE, root_constraints |-> <<"SumEq", "Cell0Eq5">>,
     geo_constraints |-> << <<>>, <<>> >>,
     mechanism |-> "discrete_laplace", privacy_parameters |-> PRIVACY_PARAMETERS],
    [L |-> 1, root_given |-> TRUE, root_constraints |-> <<"Twice0EqT">>,
     geo_constraints |-> << <<"Twice0EqT">>, <<>> >>,
     mechanism |-> "discrete_laplace", privacy_parameters |-> PRIVACY_PARAMETERS],
    [L |-> 1, root_given |-> TRUE, root_constraints |-> <<>>,
     geo_constraints |-> << <<"SumEq">>, <<>> >>,
     mechanism |-> "discrete_laplace", privacy_parameters |-> PRIVACY_PARAMETERS],
    [L |-> 2, root_given |-> TRUE, root_constraints |-> <<"SumEq">>,
     geo_constraints |-> << <<"SumEq">>, <<>> >>,
     mechanism |-> "discrete_laplace", privacy_parameters |-> PRIVACY_PARAMETERS],
    [L |-> 2, root_given |-> TRUE, root_constraints |-> <<"SumEq">>,
     geo_constraints |-> << <<>>, <<"SumEq">> >>,
     mechanism |-> "discrete_laplace", privacy_parameters |-> PRIVACY_PARAMETERS] }

\* further configurations the setters accept: a mechanism name that is
\* neither of the two, a list of privacy parameters shorter than L + 1, the
\* other mechanism with L + 1 parameters, and a run on which
\* set_root_constraints is not called
OtherConfigs ==
  { [L |-> 1, root_given |-> TRUE, root_constraints |-> <<"SumEq">>,
     geo_constraints |-> << <<>>, <<>> >>,
     mechanism |-> "gaussian", privacy_parameters |-> PRIVACY_PARAMETERS],
    [L |-> 1, root_given |-> TRUE, root_constraints |-> <<"SumEq">>,
     geo_constraints |-> << <<>>, <<>> >>,
     mechanism |-> "discrete_laplace", privacy_parameters |-> <<10>>],
    [L |-> 1, root_given |-> TRUE, root_constraints |-> <<"SumEq">>,
     geo_constraints |-> << <<>>, <<>> >>,
     mechanism |-> "discrete_gaussian", privacy_parameters |-> <<10, 20>>],
    [L |-> 1, root_given |-> FALSE, root_constraints |-> <<>>,
     geo_constraints |-> << <<"SumEq">>, <<>> >>,
     mechanism |-> "discrete_laplace", privacy_parameters |-> PRIVACY_PARAMETERS] }

----------------------------------------------------------------------------
(* Geographic tree *)

\* the rows of an input table: read_data keeps the columns
\* geo_columns + queries
RecordsOf(L) == [geo : [1..L -> GeoVals], q : Q1Vals \X Q2Vals]

RECURSIVE SeqsUpTo(_, _)
SeqsUpTo(S, n) ==
  IF n = 0 THEN {<<>>}
  ELSE LET r == SeqsUpTo(S, n - 1)
       IN r \cup {Append(s, x) : s \in {t \in r : Len(t) = n - 1}, x \in S}

\* GeographicTree.construct_tree: the nodes below the node at `path`, which
\* sits at depth current_level and holds the rows df
RECURSIVE construct_tree(_, _, _, _, _)
construct_tree(path, current_level, df, perm, c) ==
  IF current_level < c.L
  THEN LET location_ids == unique(Column(df, current_level + 1))
           child(k) ==
             LET filtered_df == filter_geo(df, current_level + 1, location_ids[k])
             IN [path |-> Append(path, k),
                 id |-> location_ids[k],
                 geographic_values |->
                     [g \in 1..(current_level + 1) |-> Column(filtered_df, g)[1]],
                 constraints |->
                     BindTemplates(c.geo_constraints[current_level + 1], Len(filtered_df)),
                 contingency_vector |-> construct_contingency_vector(filtered_df, perm),
                 children |->
                     IF current_level + 1 < c.L
                     THEN Len(unique(Column(filtered_df, current_level + 2)))
                     ELSE 0]
       IN UNION { {child(k)} \cup
                  construct_tree(Append(path, k), current_level + 1,
                                 filter_geo(df, current_level + 1, location_ids[k]),
                                 perm, c)
                  : k \in DOMAIN location_ids }
  ELSE {}

\* what iterating over the dict constraints_dict yields: its keys, the names
\* of the geographic columns (strings, not callables)
DictKeys(constraints_dict) ==
  [k \in DOMAIN constraints_dict |-> [kind |-> "key", column |-> k]]

\* TopDown.init_routine: the root is created with constraints = the dict
\* geo_constraints (line 94); when root_constraints is not None the closures
\* of the root templates replace it (lines 99-100)
init_tree(df, perm, c) ==
  LET root == [path |-> <<>>,
               id |-> 0,
               geographic_values |-> <<>>,
               constraints |-> IF c.root_given
                               THEN BindTemplates(c.root_constraints, Len(df))
                               ELSE DictKeys(c.geo_constraints),
               contingency_vector |-> construct_contingency_vector(df, perm),
               children |-> Len(unique(Column(df, 1)))]
      entries == {root} \cup construct_tree(<<>>, 0, df, perm, c)
  IN [p \in {e.path : e \in entries} |->
        LET e == CHOOSE e \in entries : e.path = p
        IN [id |-> e.id, geographic_values |-> e.geographic_values,
            constraints |-> e.constraints,
            contingency_vector |-> e.contingency_vector,
            children |-> e.children]]

\* the geography of the two-level runs: two regions, the first with two
\* communes, the second with one
DeepGeo == << <<1, 1>>, <<1, 2>>, <<2, 1>> >>

\* the input tables of a run of depth L: every non-empty table of at most
\* MaxRecords rows for one level; for two levels the tables with one row
\* per line of DeepGeo and any query values
Tables(L) ==
  IF L = 1
  THEN {d \in SeqsUpTo(RecordsOf(1), MaxRecords) : d # <<>>}
  ELSE {[i \in DOMAIN DeepGeo |-> [geo |-> DeepGeo[i], q |-> qs[i]]] :
          qs \in [DOMAIN DeepGeo -> Q1Vals \X Q2Vals]}

ChildPaths(t, p) == [k \in 1..t[p].children |-> Append(p, k)]
IsPrefix(p, q) == Len(p) <= Len(q) /\ SubSeq(q, 1, Len(p)) = p

----------------------------------------------------------------------------
(* The optimizer *)

Max(S) == CHOOSE m \in S : \A n \in S : n <= m
Min(S) == CHOOSE m \in S : \A n \in S : m <= n

RECURSIVE Concat(_)
Concat(ss) == IF ss = <<>> THEN <<>> ELSE ss[1] \o Concat(Tail(ss))

\* joint_vector[s::step] of a 0-based start s
Strided(x, s, step) ==
  [k \in 1..((Len(x) - s + step - 1) \div step) |-> x[s + 1 + (k - 1) * step]]

\* constraint(x) for a constraint of a program and a vector x in units of 1/den
Holds(con, x, den) ==
  CASE con.kind = "local" ->
         EvalTemplate(con.tmpl, x, con.value, den)
    [] con.kind = "lifted" ->
         EvalTemplate(con.c.tmpl, SubSeq(x, con.s + 1, con.e), con.c.value, den)
    [] con.kind = "consistency" ->
         SumSeq(Strided(x, con.s, con.step)) = con.value * den

\* a first stage whose variables may go down to -1
lb_minus_one == 0 - 1

\* the lower bound of the first stage's variables (addMVar(..., lb=0.0))
lb == 0

\* every vector x with lo <= x[i] <= caps[i]
RECURSIVE Box(_, _)
Box(lo, caps) ==
  IF caps = <<>> THEN {<<>>}
  ELSE {<<a>> \o r : a \in lo..caps[1], r \in Box(lo, Tail(caps))}

\* every vector of m integers >= lo that sums to total
RECURSIVE Compositions(_, _, _)
Compositions(m, total, lo) ==
  IF m = 0 THEN (IF total = 0 THEN {<<>>} ELSE {})
  ELSE UNION { {<<a>> \o r : r \in Compositions(m - 1, total - a, lo)} :
               a \in lo..(total - (m - 1) * lo) }

\* one composition of totals[j] per cell j
RECURSIVE PerCell(_, _, _)
PerCell(m, totals, lo) ==
  IF totals = <<>> THEN {<<>>}
  ELSE {<<c>> \o r : c \in Compositions(m, totals[1], lo),
                     r \in PerCell(m, Tail(totals), lo)}

\* squared L2 distance of x (units 1/den) to the target (units 1)
SqDist(x, target, den) ==
  SumSeq([i \in DOMAIN x |-> (x[i] - den * target[i]) * (x[i] - den * target[i])])

\* a bound no optimal x[i] exceeds: the consistency target of the cell when
\* the program has one, else the largest of the target and of the right-hand
\* sides of the constraints
UpperBounds(target, constraints) ==
  LET rhs == {0, 5} \cup Range(target)
             \cup {constraints[k].value : k \in {k \in DOMAIN constraints :
                                                  constraints[k].kind # "lifted"}}
             \cup {constraints[k].c.value : k \in {k \in DOMAIN constraints :
                                                  constraints[k].kind = "lifted"}}
      own(i) == {k \in DOMAIN constraints :
                   /\ constraints[k].kind = "consistency"
                   /\ (i - 1) % constraints[k].step = constraints[k].s}
  IN [i \in DOMAIN target |->
        IF own(i) = {} THEN Max(rhs)
        ELSE Min({constraints[k].value : k \in own(i)})]

\* the x >= lb among which the first stage searches: the vectors within
\* UpperBounds; when the program has consistency constraints, only those of
\* them that meet these constraints
Candidates(target, constraints) ==
  LET ub == UpperBounds(target, constraints)
      cons == {k \in DOMAIN constraints : constraints[k].kind = "consistency"}
      w == Cardinality(cons)
  IN IF cons = {}
     THEN Box(Den * lb, [i \in DOMAIN ub |-> Den * ub[i]])
     ELSE LET m == Len(target) \div w
          IN {[k \in DOMAIN target |-> ch[((k - 1) % w) + 1][((k - 1) \div w) + 1]] :
                ch \in PerCell(m, [j \in 1..w |-> Den * ub[j]], Den * lb)}

\* OptimizationModel.non_negative_real_estimation: the values it may return,
\* None when the model is infeasible, else a minimiser of the squared
\* distance to contingency_vector among the x >= lb meeting every constraint
non_negative_real_estimation(contingency_vector, constraints) ==
  LET feasible == {x \in Candidates(contingency_vector, constraints) :
                     \A k \in DOMAIN constraints : Holds(constraints[k], x, Den)}
      best == Min({SqDist(x, contingency_vector, Den) : x \in feasible})
  IN IF feasible = {} THEN {None}
     ELSE {x \in feasible : SqDist(x, contingency_vector, Den) = best}

\* np.floor(x_tilde), in units of 1
Floor(x) == [i \in DOMAIN x |-> x[i] \div Den]

VecAdd(a, b) == [i \in DOMAIN a |-> a[i] + b[i]]

\* a rounding of every cell to the nearest integer (halves upwards), the
\* constraints left aside
rounding_nearest(xt, constraints) ==
  {[i \in DOMAIN xt |-> (2 * xt[i] + Den) \div (2 * Den)]}

\* OptimizationModel.rounding_estimation for x_tilde # None: the values it
\* may return, None when no binary y makes x_floor + y meet the constraints,
\* else x_floor + y for a y nearest to the residual x_tilde - x_floor
rounding_estimation(xt, constraints) ==
  LET x_floor == Floor(xt)
      residual_round == [i \in DOMAIN xt |-> xt[i] - Den * x_floor[i]]
      feasible == {y \in [DOMAIN xt -> {0, 1}] :
                     \A k \in DOMAIN constraints :
                        Holds(constraints[k], VecAdd(x_floor, y), 1)}
      cost(y) == SumSeq([i \in DOMAIN xt |->
                   (residual_round[i] - Den * y[i]) * (residual_round[i] - Den * y[i])])
      best == Min({cost(y) : y \in feasible})
  IN IF feasible = {} THEN {None}
     ELSE {VecAdd(x_floor, y) : y \in {z \in feasible : cost(z) = best}}

\* recursive_estimation, lines 171-185: the constraints of the joint program
\* of `node`: the children's constraints lifted to their slices, then one
\* consistency constraint per cell
joint_constraints(t, node, vectors_length) ==
  LET kids == ChildPaths(t, node)
      lifted(i) == [k \in DOMAIN t[kids[i]].constraints |->
                      [kind |-> "lifted", s |-> (i - 1) * vectors_length,
                       e |-> i * vectors_length, c |-> t[kids[i]].constraints[k]]]
      consistency == [j \in 1..vectors_length |->
                        [kind |-> "consistency", s |-> j - 1, step |-> vectors_length,
                         value |-> t[node].contingency_vector[j]]]
  IN Concat([i \in DOMAIN kids |-> lifted(i)]) \o consistency

\* a concatenation of the children's vectors from the last to the first
joint_contingency_vector_reversed(t, node) ==
  LET kids == ChildPaths(t, node)
  IN Concat([i \in DOMAIN kids |-> t[kids[Len(kids) + 1 - i]].contingency_vector])

\* np.concatenate of the children's vectors
joint_contingency_vector(t, node) ==
  LET kids == ChildPaths(t, node)
  IN Concat([i \in DOMAIN kids |-> t[kids[i]].contingency_vector])

\* a split that also writes the first slice to the parent
assign_slices_and_node(t, node, joint_solution, vectors_length) ==
  [p \in DOMAIN t |->
     IF Len(p) = Len(node) + 1 /\ IsPrefix(node, p)
     THEN [t[p] EXCEPT !.contingency_vector =
             SubSeq(joint_solution, (p[Len(p)] - 1) * vectors_length + 1,
                    p[Len(p)] * vectors_length)]
     ELSE IF p = node
     THEN [t[p] EXCEPT !.contingency_vector = SubSeq(joint_solution, 1, vectors_length)]
     ELSE t[p]]

\* a split that writes the first slice to every node below `node`, the
\* children of its children included
assign_slices_subtree(t, node, joint_solution, vectors_length) ==
  [p \in DOMAIN t |->
     IF Len(p) > Len(node) /\ IsPrefix(node, p)
     THEN [t[p] EXCEPT !.contingency_vector = SubSeq(joint_solution, 1, vectors_length)]
     ELSE t[p]]

\* a split that never advances start: every child receives the first slice
assign_slices_first(t, node, joint_solution, vectors_length) ==
  [p \in DOMAIN t |->
     IF Len(p) = Len(node) + 1 /\ IsPrefix(node, p)
     THEN [t[p] EXCEPT !.contingency_vector = SubSeq(joint_solution, 1, vectors_length)]
     ELSE t[p]]

\* recursive_estimation, lines 192-196: slice i of the joint solution goes
\* to the i-th child
assign_slices(t, node, joint_solution, vectors_length) ==
  [p \in DOMAIN t |->
     IF Len(p) = Len(node) + 1 /\ IsPrefix(node, p)
     THEN [t[p] EXCEPT !.contingency_vector =
             SubSeq(joint_solution, (p[Len(p)] - 1) * vectors_length + 1,
                    p[Len(p)] * vectors_length)]
     ELSE t[p]]

----------------------------------------------------------------------------
(* Microdata reconstruction *)

\* a repetition that yields one copy at most
repeat_once(x, n) == IF n <= 0 THEN <<>> ELSE <<x>>

RECURSIVE repeat(_, _)
repeat(x, n) == IF n <= 0 THEN <<>> ELSE <<x>> \o repeat(x, n - 1)

\* a reconstruction that repeats every row of the permutation
\* contingency_vector[current_index] times, current_index staying 0
RECURSIVE recursive_construct_microdata_stale(_, _, _)
recursive_construct_microdata_stale(t, perm, node) ==
  IF t[node].children = 0
  THEN Concat([index \in DOMAIN perm |->
                 repeat([geo |-> t[node].geographic_values, q |-> perm[index]],
                        t[node].contingency_vector[1])])
  ELSE LET kids == [k \in 1..t[node].children |-> Append(node, k)]
       IN Concat([i \in DOMAIN kids |->
                    recursive_construct_microdata_stale(t, perm, kids[i])])

\* TopDown.recursive_construct_microdata: at a leaf, contingency_vector[index]
\* rows per row of the permutation, all carrying the leaf's geographic
\* values; elsewhere the rows of the children, in their order
RECURSIVE recursive_construct_microdata(_, _, _)
recursive_construct_microdata(t, perm, node) ==
  IF t[node].children = 0
  THEN Concat([index \in DOMAIN perm |->
                 repeat([geo |-> t[node].geographic_values, q |-> perm[index]],
                        t[node].contingency_vector[index])])
  ELSE LET kids == ChildPaths(t, node)
       IN Concat([i \in DOMAIN kids |-> recursive_construct_microdata(t, perm, kids[i])])

Leaves(t) == {p \in DOMAIN t : t[p].children = 0}

----------------------------------------------------------------------------
(* The correctness checker *)

\* TopDown.check_correctness_node: the nodes for which the error message is
\* printed.  A node with children is compared with them by np.sum of the
\* whole vectors; on a difference the message is printed and the node's
\* subtree is left, else the children are checked in their order.
RECURSIVE check_correctness_node(_, _)
check_correctness_node(t, node) ==
  IF t[node].children > 0
  THEN LET kids == ChildPaths(t, node)
           node_sum == SumSeq(t[node].contingency_vector)
           children_sum == SumSeq([k \in DOMAIN kids |->
                                     SumSeq(t[kids[k]].contingency_vector)])
       IN IF node_sum # children_sum
          THEN <<node>>
          ELSE Concat([k \in DOMAIN kids |-> check_correctness_node(t, kids[k])])
  ELSE <<>>

\* TopDown.check_correctness: nothing is checked while geo_tree is None
check_correctness(t) ==
  IF t # <<>> THEN check_correctness_node(t, <<>>) ELSE <<>>

----------------------------------------------------------------------------
(* The run *)

\* a table restricted to its first d geographic columns
Project(df, d) ==
  [i \in DOMAIN df |-> [geo |-> SubSeq(df[i].geo, 1, d), q |-> df[i].q]]

\* the files a run of depth 2 may be given as processed data (read_csv takes
\* any table): tables with the first geographic column and the query
\* columns, as a run of depth 1 writes them; the same with a query tuple the
\* raw data does not show; a table that already has both geographic columns
Checkpoints(df) ==
  {Project(df, 1), Project(SubSeq(df, 1, Len(df) - 1), 1), Project(df, 2)}
  \cup {[Project(df, 1) EXCEPT ![1].q = t] :
          t \in (Q1Vals \X Q2Vals) \ {df[i].q : i \in DOMAIN df}}

Init ==
  /\ cfg \in ConfigSet
  /\ data \in Tables(cfg.L)
  /\ processed_data \in (IF cfg.L = 2 THEN {None} \cup Checkpoints(data) ELSE {None})
  /\ permutation = <<>>
  /\ tree = <<>>
  /\ pc = "start"
  /\ queue = <<>>
  /\ noisy = 0
  /\ x_tilde = None
  /\ cur = <<>>
  /\ built = <<>>
  /\ measured = <<>>
  /\ diag = <<>>
  /\ exc = "none"
  /\ microdata = <<>>
  /\ exit_status = -1
  /\ status = <<>>
  /\ drawn = <<>>
  /\ programs = <<>>
  /\ popped = <<>>

\* TopDown.run, from-scratch branch, first call: init_routine
init_routine ==
  /\ pc = "start"
  /\ processed_data = None
  /\ permutation' = compute_permutation(data)
  /\ tree' = init_tree(data, permutation', cfg)
  /\ built' = tree'
  /\ pc' = "measurement"
  /\ queue' = << [node |-> <<>>, current_level |-> 0] >>
  /\ status' = [p \in DOMAIN tree' |-> "BUILT"]
  /\ UNCHANGED <<data, processed_data, cfg, noisy, x_tilde, cur, measured, diag,
                 exc, microdata, exit_status, drawn, programs,
                 popped>>

\* an exception that is caught and logged: the process ends with status 0
Raise_swallowed(e) ==
  /\ pc' = "crashed"
  /\ exc' = e
  /\ exit_status' = 0

\* an uncaught exception ends the process with a non-zero status
Raise(e) ==
  /\ pc' = "crashed"
  /\ exc' = e
  /\ exit_status' = 1

\* a mechanism that is always given the root's parameter
rho_at_root(rhos, current_level) == rhos[1]

\* rhos[current_level] of GeographicTree.apply_noise (0-based index)
rho_at(rhos, current_level) == rhos[current_level + 1]

\* a loop that stops while one node is still queued
measurement_over_early(rest) == Len(rest) <= 1

\* `while queue:` of GeographicTree.apply_noise: the loop ends when no node
\* is queued
measurement_over(rest) == rest = <<>>

\* GeographicTree.apply_noise, one turn of its loop: the mechanism adds one
\* integer sample to every cell of the node at the head of the queue, then
\* the node's children are queued with the next level.  The turn that ends
\* the loop ends measurement_phase.  In mechanism(node.contingency_vector,
\* rhos[current_level]) the index is evaluated first (IndexError past the end
\* of the list), then the call (TypeError when noise_mechanism is None).
apply_noise ==
  /\ pc = "measurement"
  /\ queue # <<>>
  /\ LET node == Head(queue).node
         current_level == Head(queue).current_level
         v == tree[node].contingency_vector
     IN IF current_level >= Len(cfg.privacy_parameters)
        THEN /\ Raise("IndexError")
             /\ UNCHANGED <<tree, queue, noisy, measured, status, drawn>>
        ELSE IF set_mechanism(cfg.mechanism) = NoMechanism
        THEN /\ Raise("TypeError")
             /\ UNCHANGED <<tree, queue, noisy, measured, status, drawn>>
        ELSE
        \E sample \in [DOMAIN v -> NoiseVals] :
          LET nonzero == Cardinality({i \in DOMAIN v : sample[i] # 0})
              rest == Tail(queue) \o
                        [k \in 1..tree[node].children |->
                           [node |-> Append(node, k), current_level |-> current_level + 1]]
          IN /\ noisy + nonzero <= MaxNoisy
             /\ noisy' = noisy + nonzero
             /\ tree' = [tree EXCEPT ![node].contingency_vector = VecAdd(v, sample)]
             /\ drawn' = Append(drawn, [node |-> node,
                                        rho |-> rho_at(cfg.privacy_parameters, current_level),
                                        cells |-> Cardinality(DOMAIN sample)])
             /\ queue' = rest
             /\ status' = [status EXCEPT ![node] = "NOISY"]
             /\ IF measurement_over(rest)
                THEN pc' = "root_stage1" /\ measured' = tree'
                ELSE pc' = pc /\ measured' = measured
             /\ UNCHANGED <<exc, exit_status>>
  /\ UNCHANGED <<data, processed_data, cfg, permutation, x_tilde, cur, built, diag,
                 microdata, programs,
                 popped>>

\* the nodes of S take state s: a node is NOISY once measurement has added
\* its samples, SOLVED_REAL / SOLVED_INT once the first / second stage of the
\* program that estimates it has returned a solution, INFEASIBLE once a
\* stage of that program has reported infeasibility
Mark(st, S, s) == [p \in DOMAIN st |-> IF p \in S THEN s ELSE st[p]]

\* the print of optimizer.py lines 41 and 78
Infeasible(id, stage) == [id |-> id, stage |-> stage]

\* TopDown.load_state: the permutation of the raw data, then the tree of the
\* checkpoint, as deep as the checkpoint has geographic columns.  The root is
\* GeographicTree(0): it has no constraints.
load_state ==
  /\ pc = "start"
  /\ processed_data # None
  /\ permutation' = compute_permutation(data)
  /\ tree' = init_tree(processed_data, permutation',
                       [cfg EXCEPT !.L = Len(processed_data[1].geo),
                                   !.root_constraints = <<>>])
  /\ built' = tree'
  /\ status' = [p \in DOMAIN tree' |-> "BUILT"]
  /\ pc' = "extend_tree"
  /\ UNCHANGED <<data, processed_data, cfg, queue, noisy, x_tilde, cur, measured,
                 diag, exc, microdata, exit_status, drawn, programs,
                 popped>>

\* an extension that returns without adding a node: resume_run goes on to
\* construct_microdata
extend_tree_silent ==
  /\ pc = "extend_tree"
  /\ pc' = "estimated"
  /\ UNCHANGED <<data, processed_data, cfg, permutation, tree, queue, noisy,
                 x_tilde, cur, built, measured, diag, exc, microdata,
                 exit_status, status, drawn, programs,
                 popped>>

\* TopDown.extend_tree, line 391: GeographicTree.extend_tree(self, raw_data,
\* permutation, geo_columns, constraints_dict) is called with five arguments
\* (queries_columns among them); the call raises TypeError before the body of
\* the method runs, and resume_run goes no further.
extend_tree ==
  /\ pc = "extend_tree"
  /\ Raise("TypeError")
  /\ UNCHANGED <<data, processed_data, cfg, permutation, tree, queue, noisy,
                 x_tilde, cur, built, measured, diag, microdata, status, drawn,
                 programs,
                 popped>>

\* TopDown.root_estimation, line 146.  The solver calls every element of the
\* root's constraints (optimizer.py, line 35): an element that is a key of
\* the dict of line 94 is a string, and calling it raises TypeError.
root_stage1 ==
  /\ pc = "root_stage1"
  /\ IF \E k \in DOMAIN tree[<<>>].constraints : tree[<<>>].constraints[k].kind = "key"
     THEN /\ Raise("TypeError")
          /\ UNCHANGED <<x_tilde, diag, status>>
     ELSE \E x \in non_negative_real_estimation(tree[<<>>].contingency_vector,
                                                tree[<<>>].constraints) :
            /\ x_tilde' = x
            /\ diag' = IF x = None THEN Append(diag, Infeasible(tree[<<>>].id, 1)) ELSE diag
            /\ status' = Mark(status, {<<>>}, IF x = None THEN "INFEASIBLE" ELSE "SOLVED_REAL")
            /\ pc' = "root_stage2"
            /\ UNCHANGED <<exc, exit_status>>
  /\ UNCHANGED <<data, processed_data, cfg, permutation, tree, queue, noisy, cur,
                 built, measured, microdata, drawn, programs,
                 popped>>

\* TopDown.root_estimation, line 147; estimation_phase then calls
\* recursive_estimation(self.geo_tree).  rounding_estimation(None, ...) raises
\* TypeError at len(x_tilde).
root_stage2 ==
  /\ pc = "root_stage2"
  /\ IF x_tilde = None
     THEN /\ Raise("TypeError")
          /\ UNCHANGED <<tree, queue, diag, status>>
     ELSE \E r \in rounding_estimation(x_tilde, tree[<<>>].constraints) :
            /\ tree' = [tree EXCEPT ![<<>>].contingency_vector = r]
            /\ status' = Mark(status, {<<>>}, IF r = None THEN "INFEASIBLE" ELSE "SOLVED_INT")
            /\ diag' = IF r = None THEN Append(diag, Infeasible(tree[<<>>].id, 2)) ELSE diag
            /\ queue' = << <<>> >>
            /\ pc' = "recursive"
            /\ UNCHANGED <<exc, exit_status>>
  /\ UNCHANGED <<data, processed_data, cfg, permutation, noisy, x_tilde, cur, built,
                 measured, microdata, drawn, programs,
                 popped>>

\* TopDown.recursive_estimation, lines 157-188: pop a node; a node without
\* children is skipped; else the joint program of its children is built and
\* its first stage solved.  node.contingency_vector[index] raises TypeError
\* when the node's vector is None.
recursive_stage1 ==
  /\ pc = "recursive"
  /\ queue # <<>>
  /\ LET node == Head(queue)
         vectors_length == Len(permutation)
     IN /\ popped' = Append(popped, node)
        /\ IF tree[node].children = 0
           THEN /\ queue' = Tail(queue)
                /\ UNCHANGED <<pc, x_tilde, cur, diag, exc, exit_status, status, programs>>
           ELSE IF tree[node].contingency_vector = None
           THEN /\ Raise("TypeError")
                /\ UNCHANGED <<queue, x_tilde, cur, diag, status, programs>>
           ELSE \E x \in non_negative_real_estimation(
                           joint_contingency_vector(tree, node),
                           joint_constraints(tree, node, vectors_length)) :
                  /\ x_tilde' = x
                  /\ cur' = node
                  /\ queue' = Tail(queue)
                  /\ diag' = IF x = None THEN Append(diag, Infeasible(tree[node].id, 1))
                             ELSE diag
                  /\ status' = Mark(status, Range(ChildPaths(tree, node)),
                                    IF x = None THEN "INFEASIBLE" ELSE "SOLVED_REAL")
                  /\ programs' = Append(programs,
                       [node |-> node,
                        value |-> tree[node].contingency_vector,
                        joint_vector |-> joint_contingency_vector(tree, node),
                        constraints |-> joint_constraints(tree, node, vectors_length),
                        joint_solution |-> None])
                  /\ pc' = "recursive_stage2"
                  /\ UNCHANGED <<exc, exit_status>>
  /\ UNCHANGED <<data, processed_data, cfg, permutation, tree, noisy, built,
                 measured, microdata, drawn>>

\* TopDown.recursive_estimation, lines 189-200: second stage, the slices go
\* to the children and the children join the queue.  joint_solution[start:end]
\* raises TypeError when rounding_estimation returned None.
recursive_stage2 ==
  /\ pc = "recursive_stage2"
  /\ LET vectors_length == Len(permutation)
     IN IF x_tilde = None
        THEN /\ Raise("TypeError")
             /\ UNCHANGED <<tree, queue, diag, status, programs>>
        ELSE \E r \in rounding_estimation(x_tilde,
                                          joint_constraints(tree, cur, vectors_length)) :
               IF r = None
               THEN /\ diag' = Append(diag, Infeasible(tree[cur].id, 2))
                    /\ status' = Mark(status, Range(ChildPaths(tree, cur)), "INFEASIBLE")
                    /\ Raise("TypeError")
                    /\ UNCHANGED <<tree, queue, programs>>
               ELSE /\ tree' = assign_slices(tree, cur, r, vectors_length)
                    /\ status' = Mark(status, Range(ChildPaths(tree, cur)), "SOLVED_INT")
                    /\ queue' = queue \o ChildPaths(tree, cur)
                    /\ programs' = [programs EXCEPT ![Len(programs)].joint_solution = r]
                    /\ pc' = "recursive"
                    /\ UNCHANGED <<diag, exc, exit_status>>
  /\ UNCHANGED <<data, processed_data, cfg, permutation, noisy, x_tilde, cur, built,
                 measured, microdata, drawn,
                 popped>>

\* recursive_estimation's loop ends with the queue empty: estimation_phase
\* returns
estimation_done ==
  /\ pc = "recursive"
  /\ queue = <<>>
  /\ pc' = "estimated"
  /\ UNCHANGED <<data, processed_data, cfg, permutation, tree, queue, noisy,
                 x_tilde, cur, built, measured, diag, exc, microdata, exit_status,
                 status, drawn, programs,
                 popped>>

\* TopDown.construct_microdata, then main returns.  np.repeat raises
\* ValueError on a negative count.
construct_microdata ==
  /\ pc = "estimated"
  /\ IF \E p \in Leaves(tree) : \E j \in DOMAIN tree[p].contingency_vector :
          tree[p].contingency_vector[j] < 0
     THEN /\ Raise("ValueError")
          /\ UNCHANGED microdata
     ELSE /\ microdata' = recursive_construct_microdata(tree, permutation, <<>>)
          /\ pc' = "done"
          /\ exit_status' = 0
          /\ UNCHANGED exc
  /\ UNCHANGED <<data, processed_data, cfg, permutation, tree, queue, noisy,
                 x_tilde, cur, built, measured, diag, status, drawn, programs,
                 popped>>

Next ==
  \/ init_routine
  \/ load_state
  \/ extend_tree
  \/ apply_noise
  \/ root_stage1
  \/ root_stage2
  \/ recursive_stage1
  \/ recursive_stage2
  \/ estimation_done
  \/ construct_microdata

Spec == Init /\ [][Next]_vars

\* The run over every configuration, those of OtherConfigs included
InitConfig ==
  /\ cfg \in ConfigSet \cup OtherConfigs
  /\ data \in Tables(cfg.L)
  /\ processed_data \in (IF cfg.L = 2 THEN {None} \cup Checkpoints(data) ELSE {None})
  /\ permutation = <<>>
  /\ tree = <<>>
  /\ pc = "start"
  /\ queue = <<>>
  /\ noisy = 0
  /\ x_tilde = None
  /\ cur = <<>>
  /\ built = <<>>
  /\ measured = <<>>
  /\ diag = <<>>
  /\ exc = "none"
  /\ microdata = <<>>
  /\ exit_status = -1
  /\ status = <<>>
  /\ drawn = <<>>
  /\ programs = <<>>
  /\ popped = <<>>

SpecConfig == InitConfig /\ [][Next]_vars

\* number of records of the inputs of the second stage alone
RoundRecords == MaxRecords

\* The second stage of the root pass alone: the tree of an input of at most
\* RoundRecords records of one region whose second query column takes two
\* values,
\* and as x_tilde any vector of |Pi| multiples of 1/Den between 0 and MaxCell
\* that meets the root's constraints, as a first-stage solution does.
InitRound ==
  /\ cfg \in {c \in ConfigSet : c.L = 1}
  /\ data \in {d \in SeqsUpTo([geo : {<<1>>}, q : Q1Vals \X Q2Wide], RoundRecords) :
                 d # <<>>}
  /\ processed_data = None
  /\ permutation = compute_permutation(data)
  /\ tree = init_tree(data, permutation, cfg)
  /\ built = tree
  /\ measured = tree
  /\ x_tilde \in {x \in Box(0, [j \in DOMAIN permutation |-> Den * MaxCell]) :
                    \A k \in DOMAIN tree[<<>>].constraints :
                       Holds(tree[<<>>].constraints[k], x, Den)}
  /\ pc = "root_stage2"
  /\ queue = <<>>
  /\ noisy = 0
  /\ cur = <<>>
  /\ diag = <<>>
  /\ exc = "none"
  /\ microdata = <<>>
  /\ exit_status = -1
  /\ status = [p \in DOMAIN tree |-> IF p = <<>> THEN "SOLVED_REAL" ELSE "NOISY"]
  /\ drawn = <<>>
  /\ programs = <<>>
  /\ popped = <<>>

SpecRound == InitRound /\ [][root_stage2]_vars

\* The build phase alone, on one-level inputs whose second query column
\* takes two values: init_routine on every non-empty table of at most
\* MaxRecords such rows.
WideTables ==
  {d \in SeqsUpTo([geo : [1..1 -> GeoVals], q : Q1Vals \X Q2Wide], MaxRecords) :
     d # <<>>}

InitBuild ==
  /\ cfg \in {c \in ConfigSet : c.L = 1}
  /\ data \in WideTables
  /\ processed_data = None
  /\ permutation = <<>>
  /\ tree = <<>>
  /\ pc = "start"
  /\ queue = <<>>
  /\ noisy = 0
  /\ x_tilde = None
  /\ cur = <<>>
  /\ built = <<>>
  /\ measured = <<>>
  /\ diag = <<>>
  /\ exc = "none"
  /\ microdata = <<>>
  /\ exit_status = -1
  /\ status = <<>>
  /\ drawn = <<>>
  /\ programs = <<>>
  /\ popped = <<>>

SpecBuild == InitBuild /\ [][init_routine]_vars

----------------------------------------------------------------------------
(* Properties *)

\* estimation_phase has returned
Estimated == pc \in {"estimated", "done"}

\* root_estimation is over (the run is in recursive_estimation or beyond,
\* or ended)
RootEstimated == pc \in {"recursive", "recursive_stage2", "estimated", "done", "crashed"}

Count(seq, r) == Cardinality({i \in DOMAIN seq : seq[i] = r})

\* the templates the configuration gives the node at path p
NodeTemplates(p) ==
  IF p = <<>> THEN cfg.root_constraints ELSE cfg.geo_constraints[Len(p)]

\* the rows of the input that lie in the cell of the node at path p
RowsAt(p) ==
  {i \in DOMAIN data :
     \A g \in 1..Len(p) : data[i].geo[g] = built[p].geographic_values[g]}

RecordCount(p) == Cardinality(RowsAt(p))

ChildrenSum(t, p, j) ==
  SumSeq([k \in 1..t[p].children |-> t[Append(p, k)].contingency_vector[j]])

Consistent(t, p) ==
  \A j \in DOMAIN permutation : ChildrenSum(t, p, j) = t[p].contingency_vector[j]

\* C1: once the estimation phase has returned, the vectors of the children of
\* every non-leaf node sum, cell by cell, to the node's vector.
C1_HierarchicalConsistency ==
  Estimated => \A p \in DOMAIN tree : tree[p].children > 0 => Consistent(tree, p)

\* C1 witness: estimation has returned on a two-level tree that noise had
\* made inconsistent at a node with two children.
C1_Witness ==
  /\ pc = "estimated"
  /\ cfg.L = 2
  /\ noisy > 0
  /\ tree[<<1>>].children = 2
  /\ ~Consistent(measured, <<1>>)

\* C2 (as claimed): after estimation every stored constraint of a node that
\* is not INFEASIBLE holds on its vector, and a node configured with the
\* template "sum of v = t" has a vector that sums to its record count.
C2_Claim ==
  Estimated =>
    \A p \in DOMAIN tree : status[p] # "INFEASIBLE" =>
      /\ \A k \in DOMAIN tree[p].constraints :
            Holds(tree[p].constraints[k], tree[p].contingency_vector, 1)
      /\ "SumEq" \in Range(NodeTemplates(p)) =>
            SumSeq(tree[p].contingency_vector) = RecordCount(p)

\* C3: once the estimation phase has returned, every node holds a vector of
\* |Pi| naturals.
C3_NonNegativeIntegers ==
  Estimated =>
    \A p \in DOMAIN tree :
      /\ Len(tree[p].contingency_vector) = Len(permutation)
      /\ \A j \in DOMAIN permutation : tree[p].contingency_vector[j] \in Nat

\* C3 witness: estimation has returned on a tree in which measurement had
\* left a negative cell.
C3_Witness ==
  /\ pc = "estimated"
  /\ \E p \in DOMAIN measured : \E j \in DOMAIN permutation :
        measured[p].contingency_vector[j] < 0

\* vectors on which two predicates are compared
TestVectors == Box(0, [j \in DOMAIN permutation |-> 6])

\* C4 (as claimed): a node built from templates f_1..f_k and t records
\* stores k constraints, the i-th evaluating on every vector as f_i(v, t).
C4_Claim ==
  (processed_data = None /\ pc # "start") =>
    \A p \in DOMAIN tree :
      /\ Len(tree[p].constraints) = Len(NodeTemplates(p))
      /\ \A i \in DOMAIN tree[p].constraints : \A v \in TestVectors :
            Holds(tree[p].constraints[i], v, 1)
              = EvalTemplate(NodeTemplates(p)[i], v, RecordCount(p), 1)

\* the run of Scenario 3: two records, root templates sum = t and v[0] = 5
Scenario3 ==
  /\ cfg.root_constraints = <<"SumEq", "Cell0Eq5">>
  /\ Len(data) = 2

\* C5 (as claimed): in Scenario 3 root estimation leaves the root
\* INFEASIBLE with a diagnostic for it, its vector as measurement left it.
C5_Claim ==
  (Scenario3 /\ RootEstimated) =>
    /\ status[<<>>] = "INFEASIBLE"
    /\ \E k \in DOMAIN diag : diag[k].id = tree[<<>>].id
    /\ tree[<<>>].contingency_vector = measured[<<>>].contingency_vector

\* a first stage has reported infeasibility and nothing was solved since
Stage1Failed == x_tilde = None /\ \E k \in DOMAIN diag : diag[k].stage = 1

\* C6 (as claimed): when a first stage is infeasible no vector of the nodes
\* the program estimates, nor of the nodes below them, is overwritten, and
\* the run goes on (no exception ends it).
C6_Claim ==
  Stage1Failed =>
    /\ \A p \in DOMAIN tree : status[p] = "INFEASIBLE" =>
          \A q \in DOMAIN tree : IsPrefix(p, q) =>
             tree[q].contingency_vector = measured[q].contingency_vector
    /\ pc # "crashed"

\* C7 (as claimed): when the second stage is infeasible for a first-stage
\* solution x, floor(x) is written back: to the root in the root pass, slice
\* by slice to the children in a joint program.
C7_Claim ==
  (pc # "start" /\ x_tilde # None) =>
    /\ status[<<>>] = "INFEASIBLE" =>
          tree[<<>>].contingency_vector = Floor(x_tilde)
    /\ (status[<<>>] # "INFEASIBLE" /\ \E p \in DOMAIN tree : status[p] = "INFEASIBLE") =>
          \A k \in 1..tree[cur].children :
             tree[Append(cur, k)].contingency_vector
               = SubSeq(Floor(x_tilde), (k - 1) * Len(permutation) + 1,
                        k * Len(permutation))

\* C8: a run that has ended has exit status zero exactly when every node
\* reached SOLVED_INT, and a non-zero status when some node is INFEASIBLE.
C8_ExitStatus ==
  /\ exit_status = 0 => \A p \in DOMAIN tree : status[p] = "SOLVED_INT"
  /\ pc \in {"done", "crashed"} =>
       /\ (\A p \in DOMAIN tree : status[p] = "SOLVED_INT") => exit_status = 0
       /\ (\E p \in DOMAIN tree : status[p] = "INFEASIBLE") => exit_status # 0

\* C8 witness: a run ended with a non-zero status and an INFEASIBLE node.
C8_Witness ==
  /\ pc = "crashed"
  /\ exit_status = 1
  /\ \E p \in DOMAIN tree : status[p] = "INFEASIBLE"

\* every template of the configuration is "sum of v = t"
SumOnly ==
  /\ Range(cfg.root_constraints) \subseteq {"SumEq"}
  /\ \A l \in 1..cfg.L : Range(cfg.geo_constraints[l]) \subseteq {"SumEq"}

SameMultiset(a, b) ==
  \A r \in Range(a) \cup Range(b) : Count(a, r) = Count(b, r)

\* C9: without noise and with sum templates only, the run from scratch
\* (build, measurement, estimation, emit) is not ended by an exception, the
\* emitted records are the input records as a multiset, and every vector
\* after estimation is the histogram of build time.
C9_NoNoiseRoundTrip ==
  (processed_data = None /\ noisy = 0 /\ SumOnly) =>
    /\ pc # "crashed"
    /\ Estimated =>
         \A p \in DOMAIN tree : tree[p].contingency_vector = built[p].contingency_vector
    /\ pc = "done" => SameMultiset(microdata, data)

\* C9 witness: a run without noise has emitted a table whose two query
\* tuples occur in the input in the order opposite to the sorted one.
C9_Witness ==
  /\ pc = "done"
  /\ noisy = 0
  /\ SumOnly
  /\ Len(permutation) = 2
  /\ data[1].q = permutation[2]

\* the emitted rows that carry the geographic values of the leaf at path p
RowsOfLeaf(p) ==
  LET keep == {i \in DOMAIN microdata : microdata[i].geo = tree[p].geographic_values}
      RECURSIVE pick(_)
      pick(n) == IF n = 0 THEN <<>>
                 ELSE IF n \in keep THEN Append(pick(n - 1), microdata[n])
                 ELSE pick(n - 1)
  IN pick(Len(microdata))

\* C10: the emitted table holds, for every leaf and every cell j, exactly
\* leaf.v[j] rows with the leaf's geographic values and the query values
\* Pi[j], and no other row; the histogram of a leaf's rows is its vector.
C10_Emit ==
  pc = "done" =>
    /\ \A p \in Leaves(tree) : \A j \in DOMAIN permutation :
          Count(microdata, [geo |-> tree[p].geographic_values, q |-> permutation[j]])
            = tree[p].contingency_vector[j]
    /\ \A i \in DOMAIN microdata :
          \E p \in Leaves(tree) : \E j \in DOMAIN permutation :
             microdata[i] = [geo |-> tree[p].geographic_values, q |-> permutation[j]]
    /\ \A p \in Leaves(tree) :
          construct_contingency_vector(RowsOfLeaf(p), permutation)
            = tree[p].contingency_vector

\* C10 witness: a noisy run has emitted a table in which a leaf contributes
\* two rows of one cell and none of the other.
C10_Witness ==
  /\ pc = "done"
  /\ noisy > 0
  /\ \E p \in Leaves(tree) :
        /\ Len(permutation) = 2
        /\ tree[p].contingency_vector[1] = 0
        /\ tree[p].contingency_vector[2] >= 2

\* the run is a run from scratch / a run resumed from a checkpoint
FromScratch == processed_data = None
Resumed == processed_data # None

Parent(p) == SubSeq(p, 1, Len(p) - 1)

\* C11 (as claimed): from the end of tree construction to the end of emit,
\* the vector of every node has |Pi| cells.
C11_Claim ==
  (FromScratch /\ pc # "start") =>
    \A p \in DOMAIN tree : Len(tree[p].contingency_vector) = Len(permutation)

\* the program recorded at position k of `programs` was built when the
\* vector of its node had been written by estimation: by the root pass for
\* the root, by an earlier program of its parent otherwise
BuiltAfterFinal(k) ==
  LET N == programs[k].node
  IN IF N = <<>>
     THEN status[<<>>] = "SOLVED_INT"
     ELSE \E j \in 1..(k - 1) :
            /\ programs[j].node = Parent(N)
            /\ programs[j].joint_solution # None
            /\ programs[k].value =
                 SubSeq(programs[j].joint_solution,
                        (N[Len(N)] - 1) * Len(permutation) + 1,
                        N[Len(N)] * Len(permutation))

\* C12: the joint program of a node is built after the node's vector has
\* received its integer value from the root pass or from its parent's
\* program; the consistency targets of the program are that value, and the
\* node's vector keeps it from then on.
C12_ParentBeforeChildren ==
  \A k \in DOMAIN programs :
    LET N == programs[k].node
    IN /\ BuiltAfterFinal(k)
       /\ \A j \in DOMAIN permutation : programs[k].value[j] \in Nat
       /\ tree[N].contingency_vector = programs[k].value
       /\ \A j \in DOMAIN permutation :
            \E n \in DOMAIN programs[k].constraints :
               /\ programs[k].constraints[n].kind = "consistency"
               /\ programs[k].constraints[n].s = j - 1
               /\ programs[k].constraints[n].value = programs[k].value[j]

\* C12 witness: the program of a node below the root has been solved, and
\* the target it was given differs from the node's noisy vector.
C12_Witness ==
  \E k \in DOMAIN programs :
    /\ programs[k].node # <<>>
    /\ programs[k].joint_solution # None
    /\ programs[k].value # measured[programs[k].node].contingency_vector

\* the calls of the mechanism on the vector of the node at path p
DrawsOn(p) == {k \in DOMAIN drawn : drawn[k].node = p}

\* measurement_phase has returned
MeasurementOver == pc \notin {"start", "measurement"}

\* C13: in a run from scratch no node is perturbed twice, a node at depth d
\* receives one sample per cell, drawn with the parameter at index d of
\* PRIVACY_PARAMETERS, and once measurement has returned every node has been
\* perturbed.
C13_Measurement ==
  FromScratch =>
    /\ \A p \in DOMAIN tree : Cardinality(DrawsOn(p)) <= 1
    /\ \A k \in DOMAIN drawn :
          /\ drawn[k].rho = PRIVACY_PARAMETERS[Len(drawn[k].node) + 1]
          /\ drawn[k].cells = Len(permutation)
    /\ MeasurementOver => \A p \in DOMAIN tree : Cardinality(DrawsOn(p)) = 1

\* C13 witness: measurement has returned on a two-level tree of six nodes,
\* a non-zero sample among those drawn.
C13_Witness ==
  /\ FromScratch
  /\ pc = "root_stage1"
  /\ cfg.L = 2
  /\ Len(drawn) = 6
  /\ noisy > 0
  /\ \E k \in DOMAIN drawn : Len(drawn[k].node) = 2

\* estimation has started: a solver call has returned
EstimationStarted ==
  \/ x_tilde # None
  \/ diag # <<>>
  \/ programs # <<>>
  \/ \E p \in DOMAIN status : status[p] \in {"SOLVED_REAL", "SOLVED_INT", "INFEASIBLE"}

\* every node with children has had its joint program solved
EstimationFinished ==
  /\ queue = <<>>
  /\ \A p \in DOMAIN tree : tree[p].children > 0 =>
        \E k \in DOMAIN programs :
           programs[k].node = p /\ programs[k].joint_solution # None

\* C14: in a run from scratch a node is perturbed only once the tree is
\* built, a solver call returns only once every node has been perturbed, and
\* records are emitted only once every joint program has been solved.
C14_PhaseOrder ==
  FromScratch =>
    /\ drawn # <<>> => (built # <<>> /\ DOMAIN tree = DOMAIN built)
    /\ EstimationStarted => \A p \in DOMAIN tree : DrawsOn(p) # {}
    /\ (microdata # <<>> \/ pc = "done") => (EstimationStarted /\ EstimationFinished)

\* C14 witness: a run from scratch on a two-level tree has emitted records.
C14_Witness ==
  /\ FromScratch
  /\ pc = "done"
  /\ cfg.L = 2
  /\ Len(microdata) = 3
  /\ Len(programs) = 3

\* the rows of df whose positions are in S, in their order
RECURSIVE SelectRows(_, _)
SelectRows(df, S) ==
  IF df = <<>> THEN <<>>
  ELSE LET r == SelectRows(SubSeq(df, 1, Len(df) - 1), S)
       IN IF Len(df) \in S THEN Append(r, df[Len(df)]) ELSE r

\* C15: for every subset of the input's records, the histogram over Pi has
\* |Pi| cells, cell i counts the records of the subset whose query tuple is
\* Pi[i], no cell is negative and the cells sum to the size of the subset.
C15_Histogram ==
  pc # "start" =>
    \A S \in SUBSET DOMAIN data :
      LET v == construct_contingency_vector(SelectRows(data, S), permutation)
      IN /\ Len(v) = Len(permutation)
         /\ \A i \in DOMAIN permutation :
              /\ v[i] = Cardinality({k \in S : data[k].q = permutation[i]})
              /\ v[i] >= 0
         /\ SumSeq(v) = Cardinality(S)

\* C15 witness: the tree is built over a Pi of four tuples from the records
\* (1,0) and (0,1), observed in this order: the root's histogram has its
\* two middle cells at 1.
C15_Witness ==
  /\ pc = "measurement"
  /\ Len(permutation) = 4
  /\ data[1].q = <<1, 0>>
  /\ tree[<<>>].contingency_vector = <<0, 1, 1, 0>>

ValuesBelow(p) == {data[i].geo[Len(p) + 1] : i \in RowsAt(p)}

\* C17: in the tree built from scratch a node at depth d carries d labels,
\* shared by a non-empty set of records; below depth L it has one child per
\* value of the next geographic column among these records, each child
\* carrying the node's labels and its own value; at depth L it has no child.
C17_Build ==
  (FromScratch /\ pc # "start") =>
    \A p \in DOMAIN built :
      /\ Len(p) <= cfg.L
      /\ Len(built[p].geographic_values) = Len(p)
      /\ RowsAt(p) # {}
      /\ (built[p].children = 0) <=> (Len(p) = cfg.L)
      /\ Len(p) < cfg.L =>
           /\ built[p].children = Cardinality(ValuesBelow(p))
           /\ \A k \in 1..built[p].children :
                /\ Append(p, k) \in DOMAIN built
                /\ \E x \in ValuesBelow(p) :
                     built[Append(p, k)].geographic_values
                       = Append(built[p].geographic_values, x)
           /\ \A k, l \in 1..built[p].children :
                k # l => built[Append(p, k)].geographic_values
                           # built[Append(p, l)].geographic_values
      /\ p # <<>> =>
           (Parent(p) \in DOMAIN built /\ p[Len(p)] <= built[Parent(p)].children)

\* C17 witness: a two-level tree is built, one node of depth 1 with two
\* children and the other with one.
C17_Witness ==
  /\ FromScratch
  /\ pc = "measurement"
  /\ cfg.L = 2
  /\ built[<<1>>].children = 2
  /\ built[<<2>>].children = 1

\* slice i (1-based) of a joint vector of slices of w cells
Slice(x, i, w) == SubSeq(x, (i - 1) * w + 1, i * w)

\* C18: the tree keeps the shape and the order of children it was built
\* with; in every joint program the i-th child of the node contributes its
\* noisy vector as slice i of the joint vector and its constraints lifted to
\* slice i, and slice i of the joint solution is the vector of the i-th
\* child from then on.
C18_SliceOrder ==
  /\ pc # "start" =>
       /\ DOMAIN tree = DOMAIN built
       /\ \A p \in DOMAIN tree :
            /\ tree[p].children = built[p].children
            /\ tree[p].id = built[p].id
            /\ tree[p].geographic_values = built[p].geographic_values
  /\ \A k \in DOMAIN programs :
       LET N == programs[k].node
           w == Len(permutation)
           m == tree[N].children
           lifted == {n \in DOMAIN programs[k].constraints :
                        programs[k].constraints[n].kind = "lifted"}
       IN /\ Len(programs[k].joint_vector) = m * w
          /\ \A i \in 1..m :
               /\ Slice(programs[k].joint_vector, i, w)
                    = measured[Append(N, i)].contingency_vector
               /\ \A c \in DOMAIN tree[Append(N, i)].constraints :
                    \E n \in lifted :
                      programs[k].constraints[n] =
                        [kind |-> "lifted", s |-> (i - 1) * w, e |-> i * w,
                         c |-> tree[Append(N, i)].constraints[c]]
               /\ programs[k].joint_solution # None =>
                    tree[Append(N, i)].contingency_vector
                      = Slice(programs[k].joint_solution, i, w)
          /\ Cardinality(lifted)
               = SumSeq([i \in 1..m |-> Len(tree[Append(N, i)].constraints)])

\* C18 witness: a joint program over two children with different noisy
\* vectors and lifted constraints has been solved, its two slices differing.
C18_Witness ==
  \E k \in DOMAIN programs :
    /\ tree[programs[k].node].children = 2
    /\ programs[k].joint_solution # None
    /\ noisy > 0
    /\ \E n \in DOMAIN programs[k].constraints :
          programs[k].constraints[n].kind = "lifted"
    /\ Slice(programs[k].joint_vector, 1, Len(permutation))
         # Slice(programs[k].joint_vector, 2, Len(permutation))
    /\ Slice(programs[k].joint_solution, 1, Len(permutation))
         # Slice(programs[k].joint_solution, 2, Len(permutation))

\* depth of the checkpoint of a resumed run: its number of geographic columns
CheckpointDepth == Len(processed_data[1].geo)

\* the cells of depth d of the raw input: the distinct values of its first d
\* geographic columns
CellsAtDepth(d) == {SubSeq(data[i].geo, 1, d) : i \in DOMAIN data}

\* the checkpoint of a resumed run fits the configuration: it is less deep
\* than the configured hierarchy and its query tuples are tuples of Pi
Compatible ==
  /\ CheckpointDepth < cfg.L
  /\ \A i \in DOMAIN processed_data :
        processed_data[i].q \in Range(compute_permutation(data))

\* resume_run is past its call of extend_tree
Extended == Resumed /\ pc \notin {"start", "extend_tree"}

\* C19 (as claimed): once a resumed run has ended, no node of the checkpoint
\* has been perturbed, and every cell of the raw input deeper than the
\* checkpoint has been perturbed exactly once, with the parameter at the
\* index of its depth.
C19_Claim ==
  (Resumed /\ Compatible /\ pc \in {"done", "crashed"}) =>
    /\ \A k \in DOMAIN drawn :
          /\ Len(drawn[k].node) > CheckpointDepth
          /\ drawn[k].rho = PRIVACY_PARAMETERS[Len(drawn[k].node) + 1]
    /\ \A p \in DOMAIN built : tree[p].contingency_vector = built[p].contingency_vector
    /\ \A d \in (CheckpointDepth + 1)..cfg.L :
          Cardinality({k \in DOMAIN drawn : Len(drawn[k].node) = d})
            = Cardinality(CellsAtDepth(d))

\* C20 (as claimed): once a resumed run has extended the tree, every node
\* at the depth of the checkpoint has one child per value of the next
\* geographic column among the raw records of its cell, and the vector of
\* each child is the histogram of the raw records carrying all its labels.
C20_Claim ==
  (Extended /\ Compatible) =>
    \A p \in DOMAIN tree : Len(p) = CheckpointDepth =>
      /\ tree[p].children = Cardinality(ValuesBelow(p))
      /\ \A k \in 1..tree[p].children :
           LET child == tree[Append(p, k)]
               rows == {i \in DOMAIN data :
                          SubSeq(data[i].geo, 1, Len(p) + 1) = child.geographic_values}
           IN /\ rows # {}
              /\ child.contingency_vector
                   = construct_contingency_vector(SelectRows(data, rows), permutation)

\* C21 (as claimed): once a run resumed from a checkpoint of depth d' < L has
\* ended, the tree reaches depth L, the nodes of the checkpoint (depths 0 to
\* d') hold the vectors rebuilt from it, every node with children at depth
\* d' or deeper is the cell-wise sum of its children, and every vector has
\* |Pi| natural cells.
C21_Claim ==
  (Resumed /\ Compatible /\ pc \in {"done", "crashed"}) =>
    /\ \A p \in DOMAIN tree : (tree[p].children = 0) <=> (Len(p) = cfg.L)
    /\ \A p \in DOMAIN built : tree[p].contingency_vector = built[p].contingency_vector
    /\ \A p \in DOMAIN tree :
          (Len(p) >= CheckpointDepth /\ tree[p].children > 0) => Consistent(tree, p)
    /\ \A p \in DOMAIN tree :
          /\ Len(tree[p].contingency_vector) = Len(permutation)
          /\ \A j \in DOMAIN permutation : tree[p].contingency_vector[j] \in Nat

DeepCheckpointEnded ==
  /\ Resumed
  /\ pc = "crashed"
  /\ CheckpointDepth = cfg.L
  /\ DOMAIN tree = DOMAIN init_tree(data, permutation, cfg)

BadConfig ==
  \/ cfg.mechanism \notin {"discrete_gaussian", "discrete_laplace"}
  \/ Len(cfg.privacy_parameters) # cfg.L + 1

\* C23 (as claimed): a run from scratch whose configuration names an unknown
\* mechanism, or gives a number of privacy parameters other than L + 1,
\* leaves its start only by a fatal error: no tree is ever built and no
\* noise is ever drawn.
C23_Claim ==
  (FromScratch /\ BadConfig) =>
    /\ pc \in {"start", "crashed"}
    /\ built = <<>>
    /\ tree = <<>>
    /\ drawn = <<>>

\* the three ways a run with such a configuration goes on: the tree is
\* built and the first call of the unknown mechanism raises; the nodes above
\* the missing parameter are perturbed before the index is out of range; a
\* run with more than L + 1 parameters ends normally
UnknownMechanismLate ==
  cfg.mechanism = "gaussian" /\ pc = "crashed" /\ exc = "TypeError" /\ built # <<>>
ShortParametersLate ==
  /\ Len(cfg.privacy_parameters) <= cfg.L
  /\ pc = "crashed" /\ exc = "IndexError" /\ drawn # <<>> /\ noisy > 0
LongParametersAccepted ==
  Len(cfg.privacy_parameters) > cfg.L + 1 /\ pc = "done" /\ exit_status = 0

\* every node of the tree holds a vector (none is None)
AllVectors == tree # <<>> /\ \A p \in DOMAIN tree : tree[p].contingency_vector # None

\* some node with children differs, in some cell, from the sum of its children
SomeCellMismatch == \E p \in DOMAIN tree : tree[p].children > 0 /\ ~Consistent(tree, p)

\* C24 (as claimed): on every tree the run goes through, check_correctness
\* prints an error exactly when some node with children differs in some
\* cell from the sum of its children.
C24_Claim ==
  AllVectors => (SomeCellMismatch <=> check_correctness(tree) # <<>>)

\* the half of C24 the code does keep: nothing is printed for a tree that is
\* consistent in every cell
C24_SilentWhenConsistent ==
  (AllVectors /\ ~SomeCellMismatch) => check_correctness(tree) = <<>>

\* the moves of the state machine of a node
StateMoves ==
  { <<"BUILT", "NOISY">>, <<"NOISY", "SOLVED_REAL">>, <<"SOLVED_REAL", "SOLVED_INT">>,
    <<"NOISY", "INFEASIBLE">>, <<"SOLVED_REAL", "INFEASIBLE">> }

\* the programs that wrote the vector of the node at path p
WritesOn(p) ==
  {k \in DOMAIN programs : p # <<>> /\ programs[k].node = Parent(p)
                            /\ programs[k].joint_solution # None}

\* one step of the run, seen from the node at path p
NodeStep(p) ==
  /\ p \in DOMAIN status' /\ p \in DOMAIN tree'
  /\ status'[p] # status[p] => <<status[p], status'[p]>> \in StateMoves
  /\ tree'[p].contingency_vector # tree[p].contingency_vector =>
        \/ status[p] = "BUILT" /\ status'[p] = "NOISY"
        \/ status[p] = "SOLVED_REAL" /\ status'[p] \in {"SOLVED_INT", "INFEASIBLE"}
  /\ status[p] \in {"SOLVED_INT", "INFEASIBLE"} =>
        (status'[p] = status[p] /\ tree'[p] = tree[p])

\* C25: a node changes state only along BUILT, NOISY, SOLVED_REAL,
\* SOLVED_INT, or to INFEASIBLE from NOISY or SOLVED_REAL; its vector
\* changes only when measurement makes it NOISY and when estimation takes it
\* from SOLVED_REAL to SOLVED_INT or INFEASIBLE; a node that is SOLVED_INT or
\* INFEASIBLE does not change; a node past BUILT has been perturbed exactly
\* once, a BUILT node never, and no node is written by two programs.
C25_NodeStates ==
  /\ [][\A p \in DOMAIN status : NodeStep(p)]_vars
  /\ [](\A p \in DOMAIN status :
          /\ Cardinality(DrawsOn(p)) = (IF status[p] = "BUILT" THEN 0 ELSE 1)
          /\ Cardinality(WritesOn(p)) <= 1
          /\ WritesOn(p) # {} => status[p] = "SOLVED_INT")

\* C25 witness: a run on a two-level tree has ended with every node
\* SOLVED_INT, a leaf holding three different vectors in turn: the one
\* built, the one measured and the one estimated.
C25_Witness ==
  /\ pc = "done"
  /\ cfg.L = 2
  /\ \A p \in DOMAIN status : status[p] = "SOLVED_INT"
  /\ \E p \in DOMAIN tree :
        /\ Len(p) = 2
        /\ built[p].contingency_vector # measured[p].contingency_vector
        /\ measured[p].contingency_vector # tree[p].contingency_vector

\* the second stage of the root pass has returned for the first-stage
\* solution x_tilde
RootRounded == pc = "recursive" /\ programs = <<>> /\ x_tilde # None

\* the y in {0,1}^n for which floor(x_tilde) + y meets the constraints C
FeasibleBits(C) ==
  {y \in [DOMAIN x_tilde -> {0, 1}] :
     \A k \in DOMAIN C : Holds(C[k], VecAdd(Floor(x_tilde), y), 1)}

\* Den^2 times the squared distance of y to x_tilde - floor(x_tilde)
BitDistance(y) ==
  SumSeq([i \in DOMAIN x_tilde |->
            (x_tilde[i] - Den * (Floor(x_tilde)[i] + y[i]))
              * (x_tilde[i] - Den * (Floor(x_tilde)[i] + y[i]))])

\* C26: when some y in {0,1}^n makes floor(x) + y meet the constraints, the
\* second stage returns floor(x) + y for such a y at the least squared
\* distance to x - floor(x): every cell is floor(x[i]) or floor(x[i]) + 1
\* and every constraint holds on the result.
C26_Rounding ==
  RootRounded =>
    LET C == tree[<<>>].constraints
        r == tree[<<>>].contingency_vector
    IN FeasibleBits(C) # {} =>
         /\ r # None
         /\ \E y \in FeasibleBits(C) :
               /\ r = VecAdd(Floor(x_tilde), y)
               /\ \A z \in FeasibleBits(C) : BitDistance(y) <= BitDistance(z)
         /\ \A i \in DOMAIN x_tilde : r[i] \in {Floor(x_tilde)[i], Floor(x_tilde)[i] + 1}
         /\ \A k \in DOMAIN C : Holds(C[k], r, 1)

\* C26 witness: the second stage has returned for x = [1.5, 0.5, 0, 0]
\* under 'sum = 2', and its result sums to 2.
C26_Witness ==
  /\ RootRounded
  /\ Len(x_tilde) = 4
  /\ 2 * x_tilde[1] = 3 * Den /\ 2 * x_tilde[2] = Den
  /\ x_tilde[3] = 0 /\ x_tilde[4] = 0
  /\ tree[<<>>].constraints = <<[kind |-> "local", tmpl |-> "SumEq", value |-> 2]>>
  /\ SumSeq(tree[<<>>].contingency_vector) = 2

\* C27 (as claimed): in a run from scratch the constraints root estimation
\* is given are the configured root templates, in their order, each bound to
\* the number of input records; without root templates the list is empty.
C27_Claim ==
  (FromScratch /\ pc # "start") =>
    LET C == tree[<<>>].constraints
    IN /\ Len(C) = (IF cfg.root_given THEN Len(cfg.root_constraints) ELSE 0)
       /\ \A i \in DOMAIN C :
            /\ C[i].kind = "local"
            /\ \A v \in TestVectors :
                  Holds(C[i], v, 1) = EvalTemplate(cfg.root_constraints[i], v, Len(data), 1)

\* a run on which set_root_constraints was not called has ended in the
\* first stage of the root pass, after measurement
RootDictCrash ==
  ~cfg.root_given /\ pc = "crashed" /\ exc = "TypeError" /\ measured # <<>>

\* a run with the empty list of root templates has estimated the root
EmptyRootListRuns ==
  /\ cfg.root_given /\ cfg.root_constraints = <<>>
  /\ FromScratch /\ RootEstimated /\ pc # "crashed"
  /\ tree[<<>>].constraints = <<>>

\* C28: in the tree as built from scratch, before any noise, the records of
\* every node with children are split among its children (each record in
\* exactly one child), the children's vectors sum cell by cell to the
\* node's vector, and the root's vector sums to the number of input records.
C28_BuildConsistency ==
  (FromScratch /\ pc # "start") =>
    /\ (pc = "measurement" /\ drawn = <<>>) => tree = built
    /\ SumSeq(built[<<>>].contingency_vector) = Len(data)
    /\ \A p \in DOMAIN built : built[p].children > 0 =>
          /\ Consistent(built, p)
          /\ RowsAt(p) = UNION {RowsAt(Append(p, k)) : k \in 1..built[p].children}
          /\ \A k, l \in 1..built[p].children :
                k # l => RowsAt(Append(p, k)) \cap RowsAt(Append(p, l)) = {}

\* C28 witness: a two-level tree has just been built, no noise drawn yet,
\* the two children of the first region holding different vectors.
C28_Witness ==
  /\ FromScratch
  /\ pc = "measurement"
  /\ drawn = <<>>
  /\ cfg.L = 2
  /\ Len(permutation) = 2
  /\ built[<<1>>].children = 2
  /\ built[<<1, 1>>].contingency_vector # built[<<1, 2>>].contingency_vector

\* the root's stored constraints include 'sum of v = number of input records'
RootCarriesSum ==
  \E k \in DOMAIN tree[<<>>].constraints :
    tree[<<>>].constraints[k] = [kind |-> "local", tmpl |-> "SumEq", value |-> Len(data)]

\* C29: when the root carries 'sum of v = number of input records' and no
\* solver call was infeasible, a run from scratch emits as many records as
\* the root's final vector sums to, which is the number of input records,
\* whatever noise was drawn.
C29_EmittedCount ==
  (FromScratch /\ pc = "done" /\ diag = <<>> /\ RootCarriesSum) =>
    /\ Len(microdata) = SumSeq(tree[<<>>].contingency_vector)
    /\ Len(microdata) = Len(data)

\* C29 witness: a run on a two-level tree has emitted its records, noise
\* having changed the total of the root's vector after build.
C29_Witness ==
  /\ FromScratch
  /\ pc = "done"
  /\ cfg.L = 2
  /\ RootCarriesSum
  /\ noisy > 0
  /\ SumSeq(measured[<<>>].contingency_vector) # Len(data)
  /\ Len(microdata) = 3

\* a run whose configured root templates include 'sum = t' without the root
\* carrying it has emitted another number of records than it read
SumTemplateLost ==
  /\ pc = "done"
  /\ "SumEq" \in Range(cfg.root_constraints)
  /\ Len(microdata) # Len(data)

\* recursive_estimation is running (the call on the root, the only call of
\* a run from scratch)
InRecursion == pc \in {"recursive", "recursive_stage2"}

\* one step of recursive_estimation: the tree keeps its nodes, their
\* children, ids, labels and constraints; a vector changes only when a joint
\* solution is split, and then it is the vector of a child of the node
\* whose program was solved; the vector of the node the call was made on
\* does not change
RecursionStep ==
  InRecursion =>
    /\ DOMAIN tree' = DOMAIN tree
    /\ \A p \in DOMAIN tree :
          /\ tree'[p].children = tree[p].children
          /\ tree'[p].id = tree[p].id
          /\ tree'[p].geographic_values = tree[p].geographic_values
          /\ tree'[p].constraints = tree[p].constraints
          /\ tree'[p].contingency_vector # tree[p].contingency_vector =>
                /\ pc = "recursive_stage2"
                /\ p # <<>>
                /\ Parent(p) = cur
                /\ Parent(p) = popped[Len(popped)]
    /\ tree'[<<>>].contingency_vector = tree[<<>>].contingency_vector

\* The frame half of C30: while recursive_estimation runs, every step leaves the shape, ids,
\* labels and constraints of the tree alone and changes no vector but those
\* of the children of the node it has just taken from its queue, never the
\* vector of the node the call was made on; no node is taken twice, a node
\* is taken after its parent, and when the call returns every node of the
\* subtree has been taken exactly once.
C30_RecursiveFrame ==
  /\ [][RecursionStep]_vars
  /\ [](/\ \A i, j \in DOMAIN popped : i # j => popped[i] # popped[j]
        /\ \A i \in DOMAIN popped :
              /\ popped[i] \in DOMAIN tree
              /\ popped[i] # <<>> => \E j \in 1..(i - 1) : popped[j] = Parent(popped[i])
        /\ Estimated => Range(popped) = DOMAIN tree)

\* A call that returned on a two-level tree of six nodes,
\* each taken once, a leaf's vector changed and the root's vector the one
\* the root pass wrote.
RecursionReturnedDeep ==
  /\ pc = "estimated"
  /\ cfg.L = 2
  /\ Len(popped) = 6
  /\ \E p \in DOMAIN tree :
        Len(p) = 2 /\ tree[p].contingency_vector # measured[p].contingency_vector
  /\ tree[<<>>].contingency_vector = programs[1].value

\* recursive_estimation has ended: it returned, or an exception left it
RecursionEnded ==
  \/ pc \in {"estimated", "done"}
  \/ pc = "crashed" /\ processed_data = None /\ popped # <<>>

\* C30: a call of recursive_estimation ends only after every node of the
\* subtree it was made on has been taken from the queue exactly once (its
\* frame is C30_RecursiveFrame).
C30_Claim ==
  RecursionEnded =>
    /\ Range(popped) = DOMAIN tree
    /\ Len(popped) = Cardinality(DOMAIN tree)

====
